---- MODULE Spec2Model ----
(***************************************************************************)
(* Model of the operation-invocation engine of jaz303/operator: the Hub's  *)
(* handler registry, the per-invocation OpContext (transaction, event      *)
(* buffer, after-hooks, lifecycle state) and the Invoke / InvokeTx         *)
(* orchestrators.  The operation body, the event handlers, the after-hooks *)
(* and the transaction (factory, Commit, Rollback) are caller-supplied:    *)
(* each is a nondeterministic choice over what such code can do with the   *)
(* OpContext it is handed and over what it can return.                     *)
(***************************************************************************)
EXTENDS Integers, Sequences, FiniteSets, TLC

\* ------------------------------------------------------------------ bounds
MaxHandlers == 2   \* handlers registered on the Hub
MaxSeed == 2       \* events already buffered when the lifecycle starts
MaxCalls == 2      \* calls of Tx, Emit and AfterFunc made on one OpContext by its callers
MaxDirectSeed == 1 \* events already buffered in the runs that call commit() / rollback() again
MaxBindings == 1   \* callbacks bound on the Hub in the runs that register callbacks of any shape
MaxIn == 3         \* parameters a callback declares
MaxOut == 2        \* values a callback returns
MaxInvocations == 2 \* invocations running concurrently on one Hub
MaxLiveSeed == 1   \* events already buffered in the runs followed to their end

\* The event types (reflect.TypeOf of an event): the keys of the registry.
EventTypes == {"A", "B"}

\* --------------------------------------------------------- state constants
stateActive == 0
stateDispatchEvents == 1
stateInvokeAfter == 2
stateSuccess == 3
stateFailed == 4
stateRolledback == 5

\* The zero value of the transaction type ("var zero T").
zeroTx == 0

\* ------------------------------------------------------------ error values
\* An error is its identity (id), the identities errors.Is finds by
\* unwrapping it (wraps) and its message (text).
Nil == [id |-> "nil", wraps |-> {}, text |-> <<>>]

NewError(msg) == [id |-> msg, wraps |-> {}, text |-> <<msg>>]

ErrInvalidState == NewError("invalid state")

ErrRecovered == NewError("operation recovered from panic")

\* Errors of the caller-supplied code.
bodyErr == NewError("body failed")
handlerErr == NewError("handler failed")
factoryErr == NewError("begin failed")
commitErr == NewError("tx commit failed")
rollbackErr == NewError("tx rollback failed")
panicErr == NewError("panic error")

\* fmt.Errorf with the %s or %v verb: a new error that formats its operand
\* into the message and wraps nothing.
ErrorfS(msg, e) == [id |-> "errorf", wraps |-> {}, text |-> <<msg>> \o e.text]

\* fmt.Errorf("%w: %w", a, b): a new error wrapping both operands.
ErrorfWW(a, b) ==
    [id |-> "errorf",
     wraps |-> ({a.id, b.id} \cup a.wraps) \cup b.wraps,
     text |-> a.text \o b.text]

\* fmt.Errorf("%w: %v", a, v): wraps a, formats the value v into the message.
ErrorfWV(a, v) ==
    [id |-> "errorf", wraps |-> {a.id} \cup a.wraps, text |-> Append(a.text, v)]

\* ------------------------------------------------------------- output values
NilOut == "nil"
SomeOut == "output"

\* --------------------------------------------------------------- variables
VARIABLES
    pc,             \* where the invocation is: "setup", "body", "handler", "hook", "done",
                    \* or "panicked" when a panic has left Invoke / InvokeTx
    eventHandlers,  \* Hub.eventHandlers: event type -> handlers in registration order
    kind,           \* "none", "Invoke" or "InvokeTx"
    state,          \* OpContext.state
    activeTx,       \* OpContext.activeTx (zeroTx when unbound)
    events,         \* OpContext.events
    after,          \* OpContext.after
    output,         \* Invoke's local "output"
    cur,            \* the position of dispatchEvent's loop: the event and the handler index
    hookLoop,       \* invokeAfterFuncs' loop: the index and the length of the ranged slice
    result,         \* what Invoke / InvokeTx returned
    \* history of the run, read by the properties only
    seeded,         \* the events that were buffered when the lifecycle started
    bodyDone,       \* whether the operation body has ended, and how
    bodyEmits,      \* the ids of the events the body passed to Emit, in order
    handlerFailed,  \* whether a handler returned a failure, and the run at that moment
    finish,         \* whether commit() / rollback() reached their transaction check, and activeTx then
    commitFailed,   \* TRUE once Transaction.Commit returned a failure
    factoryCalls,   \* number of calls of the transaction factory
    txLog,          \* the Commit / Rollback calls made, in order, with the transaction
    txGiven,        \* the set of values Tx() returned together with a nil error
    drained,        \* the events dispatchEvents handed to hub.dispatchEvent, in order
    invoked,        \* the handler invocations <<handler, event id, event type>>, in order
    hooksRun,       \* the after-hooks invoked, in order
    txCalls,        \* number of Tx calls made by the callers
    emitCalls,      \* number of Emit calls
    afterCalls,     \* number of AfterFunc calls
    last,           \* the last call of Tx / Emit / AfterFunc and what it returned
    attempts,       \* how often the body was invoked and commit() / rollback() were called
    eager,          \* what InvokeTx's own call of Tx() returned
    handlerEmits,   \* the ids of the events the handlers passed to Emit, in order
    handlerTx,      \* the transactions Tx() returned to the handlers
    trail,          \* the values OpContext.state has held, in order
    rollbackResult, \* what OpContext.rollback returned to Invoke / InvokeTx
    registered,     \* the call of RegisterEventHandler with a callback that has just ended:
                    \* what it was given and how it ended
    dispatched,     \* the call of genericEventHandler.Dispatch that has just ended: what it
                    \* was given, the calls of the callback it made and what it returned
    invoker,        \* the httpbind.Invoker: its operation and its mappers
    went,           \* the last call of Invoker.Go: what it was given and the calls it made
    heap,           \* the OpContexts allocated for concurrent invocations, by address
    local           \* each concurrent invocation: its operation, the address of its
                    \* OpContext, where Invoke is and what it has done

engine == <<pc, kind, state, activeTx, events, after, output, cur, hookLoop, result>>
history == <<seeded, bodyDone, bodyEmits, handlerFailed, finish, commitFailed, factoryCalls,
             txLog, txGiven, drained, invoked, hooksRun, txCalls, emitCalls, afterCalls, last>>
observed == <<attempts, eager, handlerEmits, handlerTx>>
outcome == <<trail, rollbackResult>>
others == <<registered, dispatched, invoker, went, heap, local>>
vars == <<eventHandlers, engine, history, observed, outcome, others>>

NoCall == [op |-> "none", by |-> "none", st |-> stateActive, ev |-> 0, err |-> Nil, tx |-> zeroTx]
NoRegistration == [called |-> FALSE]
NoDispatch == [called |-> FALSE]
NoInvoker == [bound |-> FALSE, txOp |-> FALSE, inputMapper |-> "nil", outputMapper |-> "nil",
              errorMapper |-> "nil"]
NoGo == [called |-> FALSE]
Invocations == 1..MaxInvocations
NotBegun == [begun |-> FALSE]
NoCur == [ev |-> [ty |-> "none", id |-> 0], ix |-> 0]
NoHook == [ix |-> 0, n |-> 0]
NoFailure == [failed |-> FALSE, err |-> Nil, cur |-> NoCur, nInvoked |-> 0, nDrained |-> 0, pending |-> 0]
NoFinish == [reached |-> FALSE, tx |-> zeroTx]
NoEager == [called |-> FALSE, tx |-> zeroTx, err |-> Nil]
NoAttempts == [body |-> 0, commit |-> 0, rollback |-> 0]
NoResult == [returned |-> FALSE, out |-> NilOut, err |-> Nil]

\* ------------------------------------------------------- OpContext methods
\* Variant of isTransactionActive that takes every value for a transaction.
isTransactionActiveAlways(tx) == tx = tx

\* OpContext.isTransactionActive
isTransactionActive(tx) == tx # zeroTx

\* What the transaction factory can do on its (n+1)-th call: produce a new
\* transaction, fail, or produce the zero value without an error.
FactoryOutcomes(n) ==
    {[tx |-> n + 1, err |-> Nil], [tx |-> zeroTx, err |-> factoryErr], [tx |-> zeroTx, err |-> Nil]}

\* Variant of Tx that begins a transaction on every call.
TxAlwaysBegins(tx, bt) ==
    IF bt.err # Nil
    THEN [activeTx |-> tx, tx |-> zeroTx, err |-> bt.err, began |-> TRUE]
    ELSE [activeTx |-> bt.tx, tx |-> bt.tx, err |-> Nil, began |-> TRUE]

\* OpContext.Tx: bt is what beginTransaction does if it is called.
Tx(tx, bt) ==
    IF ~isTransactionActive(tx)
    THEN IF bt.err # Nil
         THEN [activeTx |-> tx, tx |-> zeroTx, err |-> bt.err, began |-> TRUE]
         ELSE [activeTx |-> bt.tx, tx |-> bt.tx, err |-> Nil, began |-> TRUE]
    ELSE [activeTx |-> tx, tx |-> tx, err |-> Nil, began |-> FALSE]

\* Variant of Emit that accepts events while the buffer is drained.
EmitWhileDispatching(st, evs, evt) ==
    IF st # stateDispatchEvents
    THEN [events |-> evs, err |-> ErrInvalidState]
    ELSE [events |-> Append(evs, evt), err |-> Nil]

\* OpContext.Emit
Emit(st, evs, evt) ==
    IF st <= stateDispatchEvents
    THEN [events |-> evs, err |-> ErrInvalidState]
    ELSE [events |-> Append(evs, evt), err |-> Nil]

\* Variant of AfterFunc that puts the function at the front of the list.
AfterFuncPrepends(st, aft, fn) ==
    IF st # stateActive /\ st # stateDispatchEvents
    THEN [after |-> aft, err |-> ErrInvalidState]
    ELSE [after |-> <<fn>> \o aft, err |-> Nil]

\* Variant of AfterFunc that accepts a function in state Active only.
AfterFuncActiveOnly(st, aft, fn) ==
    IF st # stateActive
    THEN [after |-> aft, err |-> ErrInvalidState]
    ELSE [after |-> Append(aft, fn), err |-> Nil]

\* OpContext.AfterFunc
AfterFunc(st, aft, fn) ==
    IF st # stateActive /\ st # stateDispatchEvents
    THEN [after |-> aft, err |-> ErrInvalidState]
    ELSE [after |-> Append(aft, fn), err |-> Nil]

\* Variant of rollback that sets the state and leaves the transaction alone.
rollbackKeepsTx(st, tx, rbErr) ==
    IF st # stateActive
    THEN [state |-> st, txOps |-> <<>>, err |-> ErrInvalidState, trail |-> <<>>]
    ELSE [state |-> stateRolledback, txOps |-> <<>>, err |-> Nil,
               trail |-> <<stateRolledback>>]

\* OpContext.rollback: rbErr is what Transaction.Rollback returns if called.
rollback(st, tx, rbErr) ==
    IF st # stateActive
    THEN [state |-> st, txOps |-> <<>>, err |-> ErrInvalidState, trail |-> <<>>]
    ELSE IF isTransactionActive(tx)
         THEN [state |-> stateRolledback, txOps |-> <<(<<"Rollback", tx>>)>>, err |-> rbErr,
               trail |-> <<stateRolledback>>]
         ELSE [state |-> stateRolledback, txOps |-> <<>>, err |-> Nil,
               trail |-> <<stateRolledback>>]

\* Variant of invokeWithRecover that formats ErrRecovered into the message
\* instead of wrapping it.
invokeWithRecoverUnwrapped(fn) ==
    IF fn.panicked
    THEN IF fn.r.isErr
         THEN [out |-> NilOut, err |-> ErrorfWV(fn.r.err, "operation recovered from panic")]
         ELSE [out |-> NilOut, err |-> ErrorfS(fn.r.val, ErrRecovered)]
    ELSE [out |-> fn.out, err |-> fn.err]

\* invokeWithRecover: fn is how the operation body ended.
invokeWithRecover(fn) ==
    IF fn.panicked
    THEN IF fn.r.isErr
         THEN [out |-> NilOut, err |-> ErrorfWW(ErrRecovered, fn.r.err)]
         ELSE [out |-> NilOut, err |-> ErrorfWV(ErrRecovered, fn.r.val)]
    ELSE [out |-> fn.out, err |-> fn.err]

\* The ways the operation body can end: return an output, return an error
\* with or without an output, or panic with an error value or with a value
\* that is no error.  (Invoke hands the output pointer through without
\* looking at it, so one output stands for all a successful body returns.)
NoPanic == [isErr |-> FALSE, err |-> Nil, val |-> "none"]
BodyOutcomes ==
    {[panicked |-> FALSE, out |-> o, err |-> e, r |-> NoPanic] :
        o \in {NilOut, SomeOut}, e \in {bodyErr}}
    \cup {[panicked |-> FALSE, out |-> SomeOut, err |-> Nil, r |-> NoPanic]}
    \cup {[panicked |-> TRUE, out |-> NilOut, err |-> Nil, r |-> r] :
            r \in {[isErr |-> TRUE, err |-> panicErr, val |-> "none"],
                   [isErr |-> FALSE, err |-> Nil, val |-> "42"]}}

\* ------------------------------------------------------------------ the Hub
\* Variant of RegisterEventHandler that puts the handler at the front.
RegisterEventHandlerPrepends(hnds, ty, hnd) == [hnds EXCEPT ![ty] = <<hnd>> \o @]

\* Hub.RegisterEventHandler: append the handler hnd to the list of type ty.
RegisterEventHandler(hnds, ty, hnd) == [hnds EXCEPT ![ty] = Append(@, hnd)]

\* Hub.BeginOperation: a fresh OpContext.
BeginOperation ==
    [state |-> stateActive, activeTx |-> zeroTx, events |-> <<>>, after |-> <<>>]

\* The OpContext o with the events evs in its buffer.  Emit refuses every
\* event while the buffer can still be drained (see Emit), so an OpContext
\* that only BeginOperation and Emit have touched never holds an event when
\* commit() runs.  To exercise commit()'s drain loop, the buffer a lifecycle
\* starts with is an input: empty, as BeginOperation leaves it, or holding
\* events already, as code of the package can build an OpContext
\* (event_test.go builds OpContext values directly).  The history variable
\* seeded tells the two kinds of run apart.
Buffered(o, evs) == [o EXCEPT !.events = evs]

\* OpContext.dispatchEvents up to the first event that has a handler: pops
\* events off the front; an event without handlers is dispatched to nobody.
RECURSIVE dispatchEvents(_, _)
dispatchEvents(evs, hnds) ==
    IF Len(evs) > 0
    THEN LET evt == evs[1]
             rest == SubSeq(evs, 2, Len(evs))
         IN  IF Len(hnds[evt.ty]) > 0
             THEN [events |-> rest, popped |-> <<evt>>, call |-> TRUE]
             ELSE LET r == dispatchEvents(rest, hnds)
                  IN  [r EXCEPT !.popped = <<evt>> \o @]
    ELSE [events |-> evs, popped |-> <<>>, call |-> FALSE]

\* Variant of commitLoop that rolls the transaction back after a failed Commit.
commitLoopCompensates(evs, hnds, tx, aft, cErr) ==
    LET d == dispatchEvents(evs, hnds)
        base == [pc |-> "done", state |-> stateDispatchEvents, events |-> d.events,
                 cur |-> NoCur, hookLoop |-> NoHook, popped |-> d.popped,
                 txOps |-> <<>>, err |-> Nil, commitFailed |-> FALSE, trail |-> <<>>]
    IN  IF d.call
        THEN [base EXCEPT !.pc = "handler",
                          !.cur = [ev |-> d.popped[Len(d.popped)], ix |-> 1]]
        ELSE IF isTransactionActive(tx) /\ cErr # Nil
        THEN [base EXCEPT !.state = stateFailed,
                          !.txOps = <<(<<"Commit", tx>>), (<<"Rollback", tx>>)>>,
                          !.err = cErr, !.commitFailed = TRUE, !.trail = <<stateFailed>>]
        ELSE LET ops == IF isTransactionActive(tx) THEN <<(<<"Commit", tx>>)>> ELSE <<>>
             IN  IF Len(aft) > 0
                 THEN [base EXCEPT !.pc = "hook", !.state = stateInvokeAfter,
                                   !.txOps = ops, !.hookLoop = [ix |-> 1, n |-> Len(aft)],
                                   !.trail = <<stateInvokeAfter>>]
                 ELSE [base EXCEPT !.state = stateSuccess, !.txOps = ops,
                                   !.trail = <<stateInvokeAfter, stateSuccess>>]

\* OpContext.commit from the head of the drain loop to the next callback it
\* invokes, or to its return: cErr is what Transaction.Commit returns if it
\* is called.
commitLoop(evs, hnds, tx, aft, cErr) ==
    LET d == dispatchEvents(evs, hnds)
        base == [pc |-> "done", state |-> stateDispatchEvents, events |-> d.events,
                 cur |-> NoCur, hookLoop |-> NoHook, popped |-> d.popped,
                 txOps |-> <<>>, err |-> Nil, commitFailed |-> FALSE, trail |-> <<>>]
    IN  IF d.call
        THEN [base EXCEPT !.pc = "handler",
                          !.cur = [ev |-> d.popped[Len(d.popped)], ix |-> 1]]
        ELSE IF isTransactionActive(tx) /\ cErr # Nil
        THEN [base EXCEPT !.state = stateFailed, !.txOps = <<(<<"Commit", tx>>)>>,
                          !.err = cErr, !.commitFailed = TRUE, !.trail = <<stateFailed>>]
        ELSE LET ops == IF isTransactionActive(tx) THEN <<(<<"Commit", tx>>)>> ELSE <<>>
             IN  IF Len(aft) > 0
                 THEN [base EXCEPT !.pc = "hook", !.state = stateInvokeAfter,
                                   !.txOps = ops, !.hookLoop = [ix |-> 1, n |-> Len(aft)],
                                   !.trail = <<stateInvokeAfter>>]
                 ELSE [base EXCEPT !.state = stateSuccess, !.txOps = ops,
                                   !.trail = <<stateInvokeAfter, stateSuccess>>]

\* Variant of commit without the state guard.
commitUnguarded(st, evs, hnds, tx, aft, cErr) ==
    [commitLoop(evs, hnds, tx, aft, cErr) EXCEPT !.trail = <<stateDispatchEvents>> \o @]

\* OpContext.commit: the state guard, then the drain loop.
commit(st, evs, hnds, tx, aft, cErr) ==
    IF st # stateActive
    THEN [pc |-> "done", state |-> st, events |-> evs, cur |-> NoCur, hookLoop |-> NoHook,
          popped |-> <<>>, txOps |-> <<>>, err |-> ErrInvalidState, commitFailed |-> FALSE,
          trail |-> <<>>]
    ELSE [commitLoop(evs, hnds, tx, aft, cErr) EXCEPT !.trail = <<stateDispatchEvents>> \o @]

\* Variant of the failed-dispatch branch of commit that does not roll back.
commitDispatchFailedKeepsTx(tx, err) ==
    [state |-> stateFailed, txOps |-> <<>>, err |-> err, trail |-> <<stateFailed>>]

\* OpContext.commit when dispatchEvents returned the error err of a handler.
commitDispatchFailed(tx, err) ==
    [state |-> stateFailed,
     txOps |-> IF isTransactionActive(tx) THEN <<(<<"Rollback", tx>>)>> ELSE <<>>,
     err |-> err,
     trail |-> <<stateFailed>>]

\* Variant of InvokeTx's check of its own Tx() call that never sees a failure.
InvokeTxTxFailedIgnored(err) == err # err

\* InvokeTx after its own call of opCtx.Tx() returned err: whether it returns
\* at once instead of invoking the body.
InvokeTxTxFailed(err) == err # Nil

\* Variant of InvokeReturn that returns the body's output with the error.
InvokeReturnKeepsOutput(out, err) ==
    IF err # Nil
    THEN [returned |-> TRUE, out |-> out, err |-> ErrorfS("commit operation failed", err)]
    ELSE [returned |-> TRUE, out |-> out, err |-> Nil]

\* Invoke / InvokeTx after opCtx.commit() returned err.
InvokeReturn(out, err) ==
    IF err # Nil
    THEN [returned |-> TRUE, out |-> NilOut, err |-> ErrorfS("commit operation failed", err)]
    ELSE [returned |-> TRUE, out |-> out, err |-> Nil]

\* Variant of InvokeBodyFailed that wraps the error as the commit path does.
InvokeBodyFailedWrapped(err) ==
    [returned |-> TRUE, out |-> NilOut, err |-> ErrorfS("operation failed", err)]

\* Invoke / InvokeTx when the body ended with the error err.
InvokeBodyFailed(err) == [returned |-> TRUE, out |-> NilOut, err |-> err]

\* ------------------------------------------------------------- initial state
\* The buffers the lifecycle can start with: up to MaxSeed events, numbered
\* from 1 in buffer order.
SeedBuffers ==
    UNION {{[i \in 1..n |-> [ty |-> f[i], id |-> i]] : f \in [1..n -> EventTypes]} :
             n \in 0..MaxSeed}

NoBody == [ended |-> FALSE, fn |-> [panicked |-> FALSE, out |-> NilOut, err |-> Nil, r |-> NoPanic]]

\* The number of handlers in the registry hnds.
RECURSIVE CountHandlers(_, _)
CountHandlers(hnds, tys) ==
    IF tys = {}
    THEN 0
    ELSE LET t == CHOOSE x \in tys : TRUE
         IN  Len(hnds[t]) + CountHandlers(hnds, tys \ {t})

\* The number of calls the callers made on the OpContext.
Calls == txCalls + emitCalls + afterCalls

Init ==
    /\ pc = "setup"
    /\ eventHandlers = [t \in EventTypes |-> <<>>]
    /\ kind = "none"
    /\ state = stateActive
    /\ activeTx = zeroTx
    /\ events = <<>>
    /\ after = <<>>
    /\ output = NilOut
    /\ cur = NoCur
    /\ hookLoop = NoHook
    /\ result = NoResult
    /\ seeded \in SeedBuffers
    /\ bodyDone = NoBody
    /\ bodyEmits = <<>>
    /\ handlerFailed = NoFailure
    /\ finish = NoFinish
    /\ commitFailed = FALSE
    /\ factoryCalls = 0
    /\ txLog = <<>>
    /\ txGiven = {}
    /\ drained = <<>>
    /\ invoked = <<>>
    /\ hooksRun = <<>>
    /\ txCalls = 0
    /\ emitCalls = 0
    /\ afterCalls = 0
    /\ last = NoCall
    /\ attempts = NoAttempts
    /\ eager = NoEager
    /\ handlerEmits = <<>>
    /\ handlerTx = {}
    /\ trail = <<stateActive>>
    /\ rollbackResult = Nil
    /\ registered = NoRegistration
    /\ dispatched = NoDispatch
    /\ invoker = NoInvoker
    /\ went = NoGo
    /\ heap = <<>>
    /\ local = [i \in Invocations |-> NotBegun]

\* ------------------------------------------------------------------ actions
\* Setup: hub.RegisterEventHandler(event of type ty, handler).  Handlers are
\* numbered in registration order.
Register(ty) ==
    /\ UNCHANGED others
    /\ pc = "setup"
    /\ CountHandlers(eventHandlers, EventTypes) < MaxHandlers
    /\ eventHandlers' =
           RegisterEventHandler(eventHandlers, ty, CountHandlers(eventHandlers, EventTypes) + 1)
    /\ UNCHANGED <<engine, history, observed, outcome>>

\* Invoke, to the point where the operation body is running.
InvokeEnter ==
    /\ UNCHANGED others
    /\ pc = "setup"
    /\ LET o == Buffered(BeginOperation, seeded)
       IN  /\ state' = o.state
           /\ activeTx' = o.activeTx
           /\ events' = o.events
           /\ after' = o.after
    /\ kind' = "Invoke"
    /\ pc' = "body"
    /\ last' = NoCall
    /\ attempts' = [attempts EXCEPT !.body = @ + 1]
    /\ UNCHANGED <<eager, handlerEmits, handlerTx, outcome>>
    /\ UNCHANGED <<eventHandlers, output, cur, hookLoop, result, seeded, bodyDone, bodyEmits,
                   handlerFailed, finish, commitFailed, factoryCalls, txLog, txGiven, drained,
                   invoked, hooksRun, txCalls, emitCalls, afterCalls>>

\* InvokeTx, to the point where the operation body is running, or to its
\* return when the eager Tx() fails.
InvokeTxEnter(bt) ==
    /\ UNCHANGED others
    /\ pc = "setup"
    /\ LET o == Buffered(BeginOperation, seeded)
           t == Tx(o.activeTx, bt)
       IN  /\ state' = o.state
           /\ activeTx' = t.activeTx
           /\ events' = o.events
           /\ after' = o.after
           /\ factoryCalls' = factoryCalls + (IF t.began THEN 1 ELSE 0)
           /\ txGiven' = IF t.err = Nil THEN txGiven \cup {t.tx} ELSE txGiven
           /\ last' = [op |-> "Tx", by |-> "InvokeTx", st |-> o.state, ev |-> 0,
                       err |-> t.err, tx |-> t.tx]
           /\ IF InvokeTxTxFailed(t.err)
              THEN /\ pc' = "done"
                   /\ result' = [returned |-> TRUE, out |-> NilOut, err |-> t.err]
              ELSE /\ pc' = "body"
                   /\ result' = result
           /\ attempts' = IF InvokeTxTxFailed(t.err)
                        THEN attempts
                        ELSE [attempts EXCEPT !.body = @ + 1]
           /\ eager' = [called |-> TRUE, tx |-> t.tx, err |-> t.err]
    /\ kind' = "InvokeTx"
    /\ UNCHANGED <<handlerEmits, handlerTx, outcome>>
    /\ UNCHANGED <<eventHandlers, output, cur, hookLoop, seeded, bodyDone, bodyEmits,
                   handlerFailed, finish, commitFailed, txLog, drained, invoked, hooksRun,
                   txCalls, emitCalls, afterCalls>>

\* Who can hold the OpContext and call its methods: the operation body, an
\* event handler, an after-hook, and code that kept the pointer after
\* Invoke returned.
Callers == {"body", "handler", "hook", "done"}

\* A caller calls ctx.Tx().
CallTx(bt) ==
    /\ UNCHANGED others
    /\ pc \in Callers
    /\ Calls < MaxCalls
    /\ txCalls' = txCalls + 1
    /\ LET t == Tx(activeTx, bt)
       IN  /\ activeTx' = t.activeTx
           /\ factoryCalls' = factoryCalls + (IF t.began THEN 1 ELSE 0)
           /\ txGiven' = IF t.err = Nil THEN txGiven \cup {t.tx} ELSE txGiven
           /\ last' = [op |-> "Tx", by |-> pc, st |-> state, ev |-> 0, err |-> t.err, tx |-> t.tx]
           /\ handlerTx' = IF pc = "handler" /\ t.err = Nil THEN handlerTx \cup {t.tx} ELSE handlerTx
    /\ UNCHANGED <<attempts, eager, handlerEmits, outcome>>
    /\ UNCHANGED <<eventHandlers, pc, kind, state, events, after, output, cur, hookLoop, result,
                   seeded, bodyDone, bodyEmits, handlerFailed, finish, commitFailed, txLog, drained,
                   invoked, hooksRun, emitCalls, afterCalls>>

\* A caller calls ctx.Emit(evt) with a new event of type ty.
CallEmit(ty) ==
    /\ UNCHANGED others
    /\ pc \in Callers
    /\ Calls < MaxCalls
    /\ LET evt == [ty |-> ty, id |-> Len(seeded) + emitCalls + 1]
           e == Emit(state, events, evt)
       IN  /\ events' = e.events
           /\ bodyEmits' = IF pc = "body" THEN Append(bodyEmits, evt.id) ELSE bodyEmits
           /\ handlerEmits' = IF pc = "handler" THEN Append(handlerEmits, evt.id) ELSE handlerEmits
           /\ last' = [op |-> "Emit", by |-> pc, st |-> state, ev |-> evt.id, err |-> e.err,
                       tx |-> zeroTx]
    /\ emitCalls' = emitCalls + 1
    /\ UNCHANGED <<attempts, eager, handlerTx, outcome>>
    /\ UNCHANGED <<eventHandlers, pc, kind, state, activeTx, after, output, cur, hookLoop,
                   result, seeded, bodyDone, handlerFailed, finish, commitFailed, factoryCalls, txLog,
                   txGiven, drained, invoked, hooksRun, txCalls, afterCalls>>

\* A caller calls ctx.AfterFunc(fn) with a new function, identified by the
\* number of the call and by the caller that made it.
CallAfterFunc ==
    /\ UNCHANGED others
    /\ pc \in Callers
    /\ Calls < MaxCalls
    /\ LET a == AfterFunc(state, after, [id |-> afterCalls + 1, by |-> pc])
       IN  /\ after' = a.after
           /\ last' = [op |-> "AfterFunc", by |-> pc, st |-> state, ev |-> afterCalls + 1,
                       err |-> a.err, tx |-> zeroTx]
    /\ afterCalls' = afterCalls + 1
    /\ UNCHANGED <<observed, outcome>>
    /\ UNCHANGED <<eventHandlers, pc, kind, state, activeTx, events, output, cur, hookLoop,
                   result, seeded, bodyDone, bodyEmits, handlerFailed, finish, commitFailed,
                   factoryCalls, txLog, txGiven, drained, invoked, hooksRun, txCalls, emitCalls>>

\* commit() goes on to its next callback or returns to Invoke: r is what
\* commitLoop / commit computed, out the output Invoke holds.
Continue(r, out) ==
    /\ pc' = r.pc
    /\ state' = r.state
    /\ trail' = trail \o r.trail
    /\ events' = r.events
    /\ cur' = r.cur
    /\ hookLoop' = r.hookLoop
    /\ txLog' = txLog \o r.txOps
    /\ commitFailed' = (commitFailed \/ r.commitFailed)
    /\ finish' = IF r.pc # "handler" THEN [reached |-> TRUE, tx |-> activeTx] ELSE finish
    /\ drained' = drained \o [i \in 1..Len(r.popped) |-> r.popped[i].id]
    /\ invoked' = IF r.pc = "handler"
                  THEN Append(invoked, <<eventHandlers[r.cur.ev.ty][r.cur.ix], r.cur.ev.id, r.cur.ev.ty>>)
                  ELSE invoked
    /\ hooksRun' = IF r.pc = "hook" THEN Append(hooksRun, after[r.hookLoop.ix]) ELSE hooksRun
    /\ result' = IF r.pc = "done" THEN InvokeReturn(out, r.err) ELSE result

\* The operation body ends as fn: Invoke / InvokeTx go on to rollback(), or
\* to commit() up to its first callback or its return.
BodyReturn(fn, cErr, rbErr) ==
    /\ UNCHANGED others
    /\ pc = "body"
    /\ bodyDone' = [ended |-> TRUE, fn |-> fn]
    /\ last' = NoCall
    /\ LET b == invokeWithRecover(fn)
       IN  IF b.err # Nil
           THEN LET rb == rollback(state, activeTx, rbErr)
                IN  /\ state' = rb.state
                    /\ trail' = trail \o rb.trail
                    /\ rollbackResult' = rb.err
                    /\ txLog' = txLog \o rb.txOps
                    /\ result' = InvokeBodyFailed(b.err)
                    /\ pc' = "done"
                    /\ finish' = [reached |-> TRUE, tx |-> activeTx]
                    /\ attempts' = [attempts EXCEPT !.rollback = @ + 1]
                    /\ UNCHANGED <<events, output, cur, hookLoop, commitFailed, drained,
                                   invoked, hooksRun>>
           ELSE /\ output' = b.out
                /\ attempts' = [attempts EXCEPT !.commit = @ + 1]
                /\ UNCHANGED rollbackResult
                /\ Continue(commit(state, events, eventHandlers, activeTx, after, cErr), b.out)
    /\ UNCHANGED <<eventHandlers, kind, activeTx, after, seeded, bodyEmits, handlerFailed,
                   factoryCalls, txGiven, txCalls, emitCalls, afterCalls, eager,
                   handlerEmits, handlerTx>>

\* The running handler returns err: hub.dispatchEvent goes to the next
\* handler of the event, or returns to dispatchEvents and commit().
HandlerReturn(err, cErr) ==
    /\ UNCHANGED others
    /\ pc = "handler"
    /\ last' = NoCall
    /\ IF err # Nil
       THEN LET f == commitDispatchFailed(activeTx, err)
            IN  /\ state' = f.state
                /\ trail' = trail \o f.trail
                /\ txLog' = txLog \o f.txOps
                /\ result' = InvokeReturn(output, f.err)
                /\ pc' = "done"
                /\ handlerFailed' = [failed |-> TRUE, err |-> err, cur |-> cur,
                                      nInvoked |-> Len(invoked), nDrained |-> Len(drained),
                                      pending |-> Len(events)]
                /\ finish' = [reached |-> TRUE, tx |-> activeTx]
                /\ cur' = NoCur
                /\ UNCHANGED <<events, hookLoop, commitFailed, drained, invoked, hooksRun>>
       ELSE IF cur.ix < Len(eventHandlers[cur.ev.ty])
       THEN /\ cur' = [cur EXCEPT !.ix = @ + 1]
            /\ invoked' = Append(invoked, <<eventHandlers[cur.ev.ty][cur.ix + 1], cur.ev.id,
                                           cur.ev.ty>>)
            /\ UNCHANGED <<pc, state, trail, events, hookLoop, result, handlerFailed, finish,
                           commitFailed, txLog, drained, hooksRun>>
       ELSE /\ Continue(commitLoop(events, eventHandlers, activeTx, after, cErr), output)
            /\ UNCHANGED handlerFailed
    /\ UNCHANGED <<eventHandlers, kind, activeTx, after, output, seeded, bodyDone, bodyEmits,
                   factoryCalls, txGiven, txCalls, emitCalls, afterCalls, observed,
                   rollbackResult>>

\* The running handler panics.  Only the body runs under invokeWithRecover:
\* the panic unwinds Dispatch, dispatchEvent, dispatchEvents, commit and
\* Invoke / InvokeTx, none of which recovers, and leaves the OpContext as it is.
HandlerPanic ==
    /\ UNCHANGED others
    /\ pc = "handler"
    /\ pc' = "panicked"
    /\ last' = NoCall
    /\ UNCHANGED <<eventHandlers, kind, state, activeTx, events, after, output, cur, hookLoop,
                   result, seeded, bodyDone, bodyEmits, handlerFailed, finish, commitFailed,
                   factoryCalls, txLog, txGiven, drained, invoked, hooksRun, txCalls, emitCalls,
                   afterCalls, observed, outcome>>

\* The running after-hook returns: invokeAfterFuncs goes to the next hook, or
\* commit() sets the state and returns to Invoke.
HookReturn ==
    /\ UNCHANGED others
    /\ pc = "hook"
    /\ last' = NoCall
    /\ IF hookLoop.ix < hookLoop.n
       THEN /\ hookLoop' = [hookLoop EXCEPT !.ix = @ + 1]
            /\ hooksRun' = Append(hooksRun, after[hookLoop.ix + 1])
            /\ UNCHANGED <<pc, state, trail, result>>
       ELSE /\ hookLoop' = NoHook
            /\ state' = stateSuccess
            /\ trail' = Append(trail, stateSuccess)
            /\ result' = InvokeReturn(output, Nil)
            /\ pc' = "done"
            /\ UNCHANGED hooksRun
    /\ UNCHANGED <<eventHandlers, kind, activeTx, events, after, output, cur, seeded, bodyDone,
                   bodyEmits, handlerFailed, finish, commitFailed, factoryCalls, txLog, txGiven,
                   drained, invoked, txCalls, emitCalls, afterCalls, observed,
                   rollbackResult>>

\* commit() is called on an OpContext that has left Active (a second call, by
\* code of the package: Invoke / InvokeTx call it once, in Active).  The call
\* is recorded in last with the state, the length of the transaction log and
\* the bound transaction it found.
DirectCommit(cErr) ==
    /\ UNCHANGED others
    /\ state # stateActive
    /\ LET r == commit(state, events, eventHandlers, activeTx, after, cErr)
       IN  /\ state' = r.state
           /\ trail' = trail \o r.trail
           /\ events' = r.events
           /\ txLog' = txLog \o r.txOps
           /\ last' = [op |-> "commit", by |-> pc, st |-> state, ev |-> Len(txLog),
                       err |-> r.err, tx |-> activeTx]
    /\ UNCHANGED <<eventHandlers, pc, kind, activeTx, after, output, cur, hookLoop, result,
                   seeded, bodyDone, bodyEmits, handlerFailed, finish, commitFailed,
                   factoryCalls, txGiven, drained, invoked, hooksRun, txCalls, emitCalls,
                   afterCalls, observed, rollbackResult>>

\* rollback() is called on an OpContext that has left Active.
DirectRollback(rbErr) ==
    /\ UNCHANGED others
    /\ state # stateActive
    /\ LET r == rollback(state, activeTx, rbErr)
       IN  /\ state' = r.state
           /\ trail' = trail \o r.trail
           /\ txLog' = txLog \o r.txOps
           /\ last' = [op |-> "rollback", by |-> pc, st |-> state, ev |-> Len(txLog),
                       err |-> r.err, tx |-> activeTx]
    /\ UNCHANGED <<eventHandlers, pc, kind, activeTx, events, after, output, cur, hookLoop,
                   result, seeded, bodyDone, bodyEmits, handlerFailed, finish, commitFailed,
                   factoryCalls, txGiven, drained, invoked, hooksRun, txCalls, emitCalls,
                   afterCalls, observed, rollbackResult>>

Next ==
    \/ \E ty \in EventTypes : Register(ty)
    \/ InvokeEnter
    \/ \E bt \in FactoryOutcomes(factoryCalls) : InvokeTxEnter(bt)
    \/ \E bt \in FactoryOutcomes(factoryCalls) : CallTx(bt)
    \/ \E ty \in EventTypes : CallEmit(ty)
    \/ CallAfterFunc
    \/ \E fn \in BodyOutcomes, cErr \in {Nil, commitErr}, rbErr \in {Nil, rollbackErr} :
           BodyReturn(fn, cErr, rbErr)
    \/ \E err \in {Nil, handlerErr}, cErr \in {Nil, commitErr} : HandlerReturn(err, cErr)
    \/ HandlerPanic
    \/ HookReturn

Spec == Init /\ [][Next]_vars

\* One invocation in which the body, the handlers and the hooks return: the
\* lifecycle up to the return of Invoke / InvokeTx, without a panic of a
\* handler.  Invoke / InvokeTx run on the caller's thread, so whatever they
\* wait for returns and they go on: the returns are weakly fair.
BodyReturns ==
    \E fn \in BodyOutcomes, cErr \in {Nil, commitErr}, rbErr \in {Nil, rollbackErr} :
        BodyReturn(fn, cErr, rbErr)

HandlerReturns == \E err \in {Nil, handlerErr}, cErr \in {Nil, commitErr} : HandlerReturn(err, cErr)

NextLive ==
    \/ \E ty \in EventTypes : Register(ty)
    \/ InvokeEnter
    \/ \E bt \in FactoryOutcomes(factoryCalls) : InvokeTxEnter(bt)
    \/ \E bt \in FactoryOutcomes(factoryCalls) : pc # "done" /\ CallTx(bt)
    \/ \E ty \in EventTypes : pc # "done" /\ CallEmit(ty)
    \/ pc # "done" /\ CallAfterFunc
    \/ BodyReturns
    \/ HandlerReturns
    \/ HookReturn

InitLive == Init /\ Len(seeded) <= MaxLiveSeed

SpecLive ==
    /\ InitLive
    /\ [][NextLive]_vars
    /\ WF_vars(BodyReturns)
    /\ WF_vars(HandlerReturns)
    /\ WF_vars(HookReturn)

\* The lifecycle together with further calls of commit() and rollback().
NextDirect ==
    \/ Next
    \/ \E cErr \in {commitErr} : DirectCommit(cErr)
    \/ \E rbErr \in {rollbackErr} : DirectRollback(rbErr)

InitDirect == Init /\ Len(seeded) <= MaxDirectSeed

SpecDirect == InitDirect /\ [][NextDirect]_vars

\* ------------------------------------------------- event handler bindings
\* The types a callback's signature is made of: the event types, *OpContext[Tx],
\* context.Context, any, error and int.
Interfaces == {"Context", "any", "error"}
CtxTypes == {"OpContext", "Context", "any", "int"}
EvtTypes == EventTypes \cup {"any", "int"}
OutTypes == {"error", "int"}

\* reflect.Type.Implements: *OpContext[Tx] embeds context.Context.
Implements(t, iface) ==
    CASE iface = "any" -> TRUE
      [] iface = "Context" -> t \in {"OpContext", "Context"}
      [] iface = "error" -> t = "error"
      [] OTHER -> FALSE

\* reflect.Type.AssignableTo
AssignableTo(t, u) == t = u \/ (u \in Interfaces /\ Implements(t, u))

\* The values handed to RegisterEventHandler as hnd: a value that is not a
\* function, or a function with its parameter and result types.  Beyond two
\* parameters or one result only the number matters.
Callbacks ==
    {[isFunc |-> FALSE, ins |-> <<>>, outs |-> <<>>]} \cup
    [isFunc : {TRUE},
     ins : {<<>>} \cup {<<e>> : e \in EvtTypes} \cup {<<c, e>> : c \in CtxTypes, e \in EvtTypes}
           \cup {[i \in 1..n |-> "any"] : n \in 3..MaxIn},
     outs : {<<>>} \cup {<<r>> : r \in OutTypes} \cup {[i \in 1..n |-> "error"] : n \in 2..MaxOut}]

OpContexts == {"op1", "op2"}
Events == [ty : EventTypes, id : {1, 2}]

Panicked == [panicked |-> TRUE]

\* Variant of makeEventHandler that does not compare the event parameter with
\* the registered event type.
makeEventHandlerAnyEvent(eventType, fn) ==
    IF ~fn.isFunc THEN Panicked
    ELSE IF Len(fn.outs) = 1 /\ ~Implements(fn.outs[1], "error") THEN Panicked
    ELSE IF Len(fn.outs) > 1 THEN Panicked
    ELSE IF Len(fn.ins) = 2
         THEN IF ~AssignableTo("OpContext", fn.ins[1]) THEN Panicked
              ELSE [panicked |-> FALSE,
                    hnd |-> [fn |-> fn, evtParameterType |-> eventType, hasContext |-> TRUE]]
    ELSE IF Len(fn.ins) = 1
         THEN [panicked |-> FALSE,
               hnd |-> [fn |-> fn, evtParameterType |-> eventType, hasContext |-> FALSE]]
    ELSE Panicked

\* makeEventHandler: the checks of the callback's shape, in the code's order,
\* and the genericEventHandler it returns.
makeEventHandler(eventType, fn) ==
    IF ~fn.isFunc THEN Panicked
    ELSE IF Len(fn.outs) = 1 /\ ~Implements(fn.outs[1], "error") THEN Panicked
    ELSE IF Len(fn.outs) > 1 THEN Panicked
    ELSE IF Len(fn.ins) = 2
         THEN IF ~AssignableTo("OpContext", fn.ins[1]) THEN Panicked
              ELSE IF ~AssignableTo(eventType, fn.ins[2]) THEN Panicked
              ELSE [panicked |-> FALSE,
                    hnd |-> [fn |-> fn, evtParameterType |-> eventType, hasContext |-> TRUE]]
    ELSE IF Len(fn.ins) = 1
         THEN IF ~AssignableTo(eventType, fn.ins[1]) THEN Panicked
              ELSE [panicked |-> FALSE,
                    hnd |-> [fn |-> fn, evtParameterType |-> eventType, hasContext |-> FALSE]]
    ELSE Panicked

\* reflect.Value.Call: panics unless the arguments fit the function's
\* parameters; otherwise the function runs once and returns ret if it
\* declares a result.  An argument is a pair of its type and its value.
Call(fn, args, ret) ==
    IF \/ Len(args) # Len(fn.ins)
       \/ \E i \in 1..Len(args) : ~AssignableTo(args[i][1], fn.ins[i])
    THEN [panicked |-> TRUE, calls |-> <<>>, out |-> <<>>]
    ELSE [panicked |-> FALSE,
          calls |-> <<[i \in 1..Len(args) |-> args[i][2]]>>,
          out |-> IF Len(fn.outs) = 0 THEN <<>> ELSE <<ret>>]

\* The error Dispatch makes when the event is not of the binding's type.
ErrNotAssignable == [id |-> "event type is not assignable", wraps |-> {}, text |-> <<>>]

\* Variant of Dispatch that reports success whatever the callback returned.
DispatchDropsError(h, op, evt, ret) ==
    LET args == (IF h.hasContext THEN <<(<<"OpContext", op>>)>> ELSE <<>>) \o <<(<<evt.ty, evt>>)>>
    IN  IF ~AssignableTo(evt.ty, h.evtParameterType)
        THEN [panicked |-> FALSE, calls |-> <<>>, err |-> ErrNotAssignable]
        ELSE LET c == Call(h.fn, args, ret)
             IN  [panicked |-> c.panicked, calls |-> c.calls, err |-> Nil]

\* genericEventHandler.Dispatch: ret is what the callback returns when it is
\* called and declares a result.
Dispatch(h, op, evt, ret) ==
    LET args == (IF h.hasContext THEN <<(<<"OpContext", op>>)>> ELSE <<>>) \o <<(<<evt.ty, evt>>)>>
    IN  IF ~AssignableTo(evt.ty, h.evtParameterType)
        THEN [panicked |-> FALSE, calls |-> <<>>, err |-> ErrNotAssignable]
        ELSE LET c == Call(h.fn, args, ret)
             IN  [panicked |-> c.panicked,
                  calls |-> c.calls,
                  err |-> IF c.panicked \/ Len(c.out) = 0 \/ c.out[1] = Nil THEN Nil ELSE c.out[1]]

\* hub.RegisterEventHandler(event of type ty, fn): a panic of makeEventHandler
\* leaves before the assignment to the registry.
RegisterCallback(ty, fn) ==
    /\ pc = "setup"
    /\ CountHandlers(eventHandlers, EventTypes) < MaxBindings
    /\ LET m == makeEventHandler(ty, fn)
       IN  /\ eventHandlers' = IF m.panicked THEN eventHandlers
                               ELSE RegisterEventHandler(eventHandlers, ty, m.hnd)
           /\ registered' = [called |-> TRUE, ty |-> ty, fn |-> fn, panicked |-> m.panicked,
                             before |-> eventHandlers]
    /\ dispatched' = NoDispatch
    /\ UNCHANGED <<engine, history, observed, outcome, invoker, went, heap, local>>

\* The i-th binding registered for the type ty gets Dispatch(op, evt): from
\* Hub.dispatchEvent, which looks the bindings up by the event's type, or from
\* a caller that holds the binding.
DispatchCall(ty, i, op, evt, ret) ==
    /\ pc = "setup"
    /\ i \in 1..Len(eventHandlers[ty])
    /\ LET h == eventHandlers[ty][i]
           d == Dispatch(h, op, evt, ret)
       IN  dispatched' = [called |-> TRUE, h |-> h, ty |-> ty, op |-> op, evt |-> evt, ret |-> ret,
                          panicked |-> d.panicked, calls |-> d.calls, err |-> d.err]
    /\ registered' = NoRegistration
    /\ UNCHANGED <<eventHandlers, engine, history, observed, outcome, invoker, went, heap, local>>

NextHandler ==
    \/ \E ty \in EventTypes, fn \in Callbacks : RegisterCallback(ty, fn)
    \/ \E ty \in EventTypes, i \in 1..MaxBindings, op \in OpContexts, evt \in Events,
          ret \in {Nil, handlerErr} : DispatchCall(ty, i, op, evt, ret)

\* A new Hub, before any invocation.
InitHandler == Init /\ seeded = <<>>

SpecHandler == InitHandler /\ [][NextHandler]_vars

\* ---------------------------------------------------------------- httpbind
ErrInputMappingFailed == NewError("input mapping failed")

ErrOperationFailed == NewError("operation failed")

\* The error of a caller-supplied input mapper.
inputErr == NewError("bad request")

\* httpbind.Bind
Bind ==
    [bound |-> TRUE, txOp |-> FALSE, inputMapper |-> "nil", outputMapper |-> "nil",
     errorMapper |-> "DefaultErrorMapper"]

\* httpbind.BindTx
BindTx ==
    [bound |-> TRUE, txOp |-> TRUE, inputMapper |-> "nil", outputMapper |-> "nil",
     errorMapper |-> "DefaultErrorMapper"]

\* Invoker.getInputMapper
getInputMapper(i) == IF i.inputMapper = "nil" THEN "Zero" ELSE i.inputMapper

\* Invoker.getOutputMapper
getOutputMapper(i) == IF i.outputMapper = "nil" THEN "WriteJSON" ELSE i.outputMapper

\* What an input mapper returns: Zero a new value and no error, a
\* caller-supplied mapper what inRes says.
InputResults == {[input |-> "input", err |-> Nil], [input |-> "nil", err |-> inputErr]}
Zero == [input |-> "zero", err |-> Nil]

\* What Invoke / InvokeTx return to Go: after a commit() that succeeded or
\* failed, after a body that failed or panicked and, for InvokeTx, after its
\* own Tx() call failed.
InvokeResults(txOp) ==
    {InvokeReturn(SomeOut, e) : e \in {Nil, handlerErr, commitErr}}
    \cup {InvokeBodyFailed(invokeWithRecover(fn).err) :
             fn \in {f \in BodyOutcomes : f.panicked \/ f.err # Nil}}
    \cup (IF txOp THEN {[returned |-> TRUE, out |-> NilOut, err |-> factoryErr]} ELSE {})

\* Variant of Go without the return after the operation's error is mapped.
GoFallsThrough(i, inRes, invRes) ==
    LET in == IF getInputMapper(i) = "Zero" THEN Zero ELSE inRes
        mapInput == <<[who |-> "inputMapper", fn |-> getInputMapper(i), arg |-> "request"]>>
        invoke == <<[who |-> IF i.txOp THEN "InvokeTx" ELSE "Invoke", fn |-> "op",
                     arg |-> in.input]>>
    IN  IF in.err # Nil
        THEN mapInput \o <<[who |-> "errorMapper", fn |-> i.errorMapper,
                            arg |-> ErrorfWW(ErrInputMappingFailed, in.err)]>>
        ELSE IF invRes.err # Nil
        THEN mapInput \o invoke
             \o <<[who |-> "errorMapper", fn |-> i.errorMapper,
                   arg |-> ErrorfWW(ErrOperationFailed, invRes.err)]>>
             \o <<[who |-> "outputMapper", fn |-> getOutputMapper(i), arg |-> invRes.out]>>
        ELSE mapInput \o invoke
             \o <<[who |-> "outputMapper", fn |-> getOutputMapper(i), arg |-> invRes.out]>>

\* Invoker.Go: the calls it makes, in order, when a caller-supplied input
\* mapper returns inRes and Invoke / InvokeTx return invRes.
Go(i, inRes, invRes) ==
    LET in == IF getInputMapper(i) = "Zero" THEN Zero ELSE inRes
        mapInput == <<[who |-> "inputMapper", fn |-> getInputMapper(i), arg |-> "request"]>>
        invoke == <<[who |-> IF i.txOp THEN "InvokeTx" ELSE "Invoke", fn |-> "op",
                     arg |-> in.input]>>
    IN  IF in.err # Nil
        THEN mapInput \o <<[who |-> "errorMapper", fn |-> i.errorMapper,
                            arg |-> ErrorfWW(ErrInputMappingFailed, in.err)]>>
        ELSE IF invRes.err # Nil
        THEN mapInput \o invoke
             \o <<[who |-> "errorMapper", fn |-> i.errorMapper,
                   arg |-> ErrorfWW(ErrOperationFailed, invRes.err)]>>
        ELSE mapInput \o invoke
             \o <<[who |-> "outputMapper", fn |-> getOutputMapper(i), arg |-> invRes.out]>>

\* httpbind.Bind(hub, op) or httpbind.BindTx(hub, op) makes the Invoker.
BindOp(tx) ==
    /\ ~invoker.bound
    /\ invoker' = IF tx THEN BindTx ELSE Bind
    /\ UNCHANGED <<eventHandlers, engine, history, observed, outcome, registered, dispatched, went,
                   heap, local>>

\* Invoker.WithInputMapper(fn)
WithInputMapper ==
    /\ invoker.bound
    /\ invoker' = [invoker EXCEPT !.inputMapper = "inputFn"]
    /\ UNCHANGED <<eventHandlers, engine, history, observed, outcome, registered, dispatched, went,
                   heap, local>>

\* Invoker.WithOutputMapper(fn)
WithOutputMapper ==
    /\ invoker.bound
    /\ invoker' = [invoker EXCEPT !.outputMapper = "outputFn"]
    /\ UNCHANGED <<eventHandlers, engine, history, observed, outcome, registered, dispatched, went,
                   heap, local>>

\* Invoker.WithErrorMapper(fn)
WithErrorMapper ==
    /\ invoker.bound
    /\ invoker' = [invoker EXCEPT !.errorMapper = "errorFn"]
    /\ UNCHANGED <<eventHandlers, engine, history, observed, outcome, registered, dispatched, went,
                   heap, local>>

\* A request arrives: Invoker.Go(w, r).
GoCall(inRes, invRes) ==
    /\ invoker.bound
    /\ went' = [called |-> TRUE, invoker |-> invoker, inRes |-> inRes, invRes |-> invRes,
                calls |-> Go(invoker, inRes, invRes)]
    /\ UNCHANGED <<eventHandlers, engine, history, observed, outcome, registered, dispatched,
                   invoker, heap, local>>

NextGo ==
    \/ \E tx \in BOOLEAN : BindOp(tx)
    \/ WithInputMapper
    \/ WithOutputMapper
    \/ WithErrorMapper
    \/ \E inRes \in InputResults, invRes \in InvokeResults(invoker.txOp) : GoCall(inRes, invRes)

SpecGo == InitHandler /\ [][NextGo]_vars

\* ------------------------------------------------- concurrent invocations
\* The operations the concurrent invocations run.  An operation is the events
\* its OpContext starts with, the calls its body makes on the OpContext, whether
\* the body returns an error, and whether the handlers it reaches return one.
Operations ==
    {[seed |-> <<[ty |-> "A", id |-> 1]>>, calls |-> <<"Tx", "AfterFunc">>, fails |-> FALSE,
      handlerFails |-> FALSE],
     [seed |-> <<[ty |-> "A", id |-> 1]>>, calls |-> <<"Tx">>, fails |-> FALSE,
      handlerFails |-> TRUE],
     [seed |-> <<>>, calls |-> <<"Tx", "Emit">>, fails |-> TRUE, handlerFails |-> FALSE],
     [seed |-> <<>>, calls |-> <<"AfterFunc">>, fails |-> FALSE, handlerFails |-> FALSE]}

\* Variant of NewContext that hands out the OpContext at address 1 again.
NewContextShared(hp) == 1

\* &OpContext[Tx]{...} in Hub.BeginOperation: the address of a new OpContext.
NewContext(hp) == Len(hp) + 1

\* Invoke after hub.BeginOperation: the invocation of the operation op holds
\* the OpContext at address a, whose hub has the registry hnds.
Begun(op, a, hnds) ==
    [begun |-> TRUE, op |-> op, ctx |-> a, hub |-> hnds, pc |-> "body", ip |-> 0, steps |-> 0,
     returns |-> <<>>, cur |-> NoCur, hookLoop |-> NoHook, txOps |-> <<>>, delivered |-> <<>>,
     hooksRun |-> 0, result |-> NoResult]

\* The body makes its next call on its OpContext c.  The factory names the
\* transaction it makes after the OpContext it is called for.
BodyCall(l, c) ==
    LET call == l.op.calls[l.ip + 1]
        t == Tx(c.activeTx, [tx |-> l.ctx, err |-> Nil])
        e == Emit(c.state, c.events, [ty |-> "A", id |-> Len(l.op.seed) + l.ip + 1])
        a == AfterFunc(c.state, c.after, [id |-> l.ip + 1, by |-> "body"])
    IN  [l |-> [l EXCEPT !.ip = @ + 1,
                         !.returns = Append(@, CASE call = "Tx" -> <<t.tx, t.err>>
                                                 [] call = "Emit" -> <<e.err>>
                                                 [] OTHER -> <<a.err>>)],
         c |-> CASE call = "Tx" -> [c EXCEPT !.activeTx = t.activeTx]
                 [] call = "Emit" -> [c EXCEPT !.events = e.events]
                 [] OTHER -> [c EXCEPT !.after = a.after]]

\* commit() goes on to its next callback or returns to Invoke: r is what
\* commit / commitLoop computed.  A handler is called with the OpContext.
Resume(l, c, hnds, r) ==
    [l |-> [l EXCEPT !.pc = r.pc, !.cur = r.cur, !.hookLoop = r.hookLoop,
                     !.txOps = @ \o r.txOps,
                     !.delivered = IF r.pc = "handler"
                                   THEN Append(@, <<hnds[r.cur.ev.ty][r.cur.ix], r.cur.ev.id, l.ctx>>)
                                   ELSE @,
                     !.hooksRun = IF r.pc = "hook" THEN @ + 1 ELSE @,
                     !.result = IF r.pc = "done" THEN InvokeReturn(SomeOut, r.err) ELSE @],
     c |-> [c EXCEPT !.state = r.state, !.events = r.events]]

\* The body returns: Invoke calls rollback() or commit().
BodyEnd(l, c, hnds) ==
    IF l.op.fails
    THEN LET rb == rollback(c.state, c.activeTx, Nil)
         IN  [l |-> [l EXCEPT !.pc = "done", !.txOps = @ \o rb.txOps,
                              !.result = InvokeBodyFailed(bodyErr)],
              c |-> [c EXCEPT !.state = rb.state]]
    ELSE Resume(l, c, hnds, commit(c.state, c.events, hnds, c.activeTx, c.after, Nil))

\* The running handler returns.
HandlerEnd(l, c, hnds) ==
    IF l.op.handlerFails
    THEN LET f == commitDispatchFailed(c.activeTx, handlerErr)
         IN  [l |-> [l EXCEPT !.pc = "done", !.cur = NoCur, !.txOps = @ \o f.txOps,
                              !.result = InvokeReturn(SomeOut, f.err)],
              c |-> [c EXCEPT !.state = f.state]]
    ELSE IF l.cur.ix < Len(hnds[l.cur.ev.ty])
    THEN [l |-> [l EXCEPT !.cur.ix = @ + 1,
                          !.delivered = Append(@, <<hnds[l.cur.ev.ty][l.cur.ix + 1], l.cur.ev.id,
                                                    l.ctx>>)],
          c |-> c]
    ELSE Resume(l, c, hnds, commitLoop(c.events, hnds, c.activeTx, c.after, Nil))

\* The running after-hook returns.
HookEnd(l, c) ==
    IF l.hookLoop.ix < l.hookLoop.n
    THEN [l |-> [l EXCEPT !.hookLoop.ix = @ + 1, !.hooksRun = @ + 1], c |-> c]
    ELSE [l |-> [l EXCEPT !.pc = "done", !.hookLoop = NoHook,
                          !.result = InvokeReturn(SomeOut, Nil)],
          c |-> [c EXCEPT !.state = stateSuccess]]

\* One step of an invocation on the OpContext c it holds; hnds is the registry
\* of the Hub.
Step(l, c, hnds) ==
    LET n == [l EXCEPT !.steps = @ + 1]
    IN  CASE l.pc = "body" /\ l.ip < Len(l.op.calls) -> BodyCall(n, c)
          [] l.pc = "body" /\ l.ip = Len(l.op.calls) -> BodyEnd(n, c, hnds)
          [] l.pc = "handler" -> HandlerEnd(n, c, hnds)
          [] l.pc = "hook" -> HookEnd(n, c)
          [] OTHER -> [l |-> l, c |-> c]

\* No invocation has begun: the time for registration.
NotStarted == \A i \in Invocations : ~local[i].begun

\* The invocation i begins: Invoke calls hub.BeginOperation.
Begin(i, op) ==
    /\ ~local[i].begun
    /\ LET a == NewContext(heap)
           o == Buffered(BeginOperation, op.seed)
       IN  /\ heap' = [k \in 1..(IF a > Len(heap) THEN a ELSE Len(heap)) |->
                           IF k = a THEN o ELSE heap[k]]
           /\ local' = [local EXCEPT ![i] = Begun(op, a, eventHandlers)]
    /\ UNCHANGED <<eventHandlers, engine, history, observed, outcome, registered, dispatched,
                   invoker, went>>

\* The invocation i takes its next step.
Proceed(i) ==
    /\ local[i].begun
    /\ local[i].pc # "done"
    /\ LET r == Step(local[i], heap[local[i].ctx], eventHandlers)
       IN  /\ local' = [local EXCEPT ![i] = r.l]
           /\ heap' = [heap EXCEPT ![local[i].ctx] = r.c]
    /\ UNCHANGED <<eventHandlers, engine, history, observed, outcome, registered, dispatched,
                   invoker, went>>

NextConcurrent ==
    \/ \E ty \in EventTypes : NotStarted /\ Register(ty)
    \/ \E i \in Invocations, op \in Operations : Begin(i, op)
    \/ \E i \in Invocations : Proceed(i)

SpecConcurrent == InitHandler /\ [][NextConcurrent]_vars

\* --------------------------------------------------------------- properties
\* errors.Is(e, target) for a sentinel or caller-made target.
Is(e, target) == e = target \/ e.id = target.id \/ target.id \in e.wraps

Ids(evs) == [i \in 1..Len(evs) |-> evs[i].id]

IsPrefix(a, b) == Len(a) <= Len(b) /\ \A i \in 1..Len(a) : a[i] = b[i]

\* The operation body ended with an error or a panic.
BodyFailed == bodyDone.ended /\ (bodyDone.fn.panicked \/ bodyDone.fn.err # Nil)

\* The operation body returned without an error.
BodySucceeded == bodyDone.ended /\ ~bodyDone.fn.panicked /\ bodyDone.fn.err = Nil

\* The hooks ran in the order of the AfterFunc calls that registered them.
InRegistrationOrder(hooks) ==
    \A i, j \in 1..Len(hooks) : i < j => hooks[i].id < hooks[j].id

\* C1: in state Active, Emit(evt) returns no error and appends evt at the end
\* of the event buffer.  (Stated for the OpContexts BeginOperation builds.)
C1_EmitInActiveAppends ==
    (seeded = <<>> /\ last.op = "Emit" /\ last.st = stateActive)
        => (last.err = Nil /\ Len(events) > 0 /\ events[Len(events)].id = last.ev)

\* C2: in every state other than Active, Emit returns ErrInvalidState and
\* leaves the event buffer unchanged.
C2_EmitOutsideActiveRejected ==
    (seeded = <<>> /\ last.op = "Emit" /\ last.st # stateActive)
        => (last.err = ErrInvalidState /\ \A i \in 1..Len(events) : events[i].id # last.ev)

\* C3: once a handler has returned a failure, no further handler is invoked
\* and no further event is dispatched, no after-hook runs, the transaction
\* bound at that moment has received exactly one Rollback and no Commit (and
\* nothing is called when none is bound), and the OpContext is Failed.
C3_HandlerFailureAborts ==
    handlerFailed.failed =>
        /\ pc = "done"
        /\ state = stateFailed
        /\ Len(invoked) = handlerFailed.nInvoked
        /\ Len(drained) = handlerFailed.nDrained
        /\ hooksRun = <<>>
        /\ txLog = IF finish.tx # zeroTx THEN <<(<<"Rollback", finish.tx>>)>> ELSE <<>>

\* A handler failed while a later handler of the same event, a further event
\* with a handler, a bound transaction and a registered hook were all there.
C3_Witness ==
    /\ handlerFailed.failed
    /\ finish.tx # zeroTx
    /\ handlerFailed.cur.ix < Len(eventHandlers[handlerFailed.cur.ev.ty])
    /\ handlerFailed.pending > 0
    /\ Len(eventHandlers[events[1].ty]) > 0
    /\ Len(after) > 0

C5_BodyFailureRollsBack ==
    BodyFailed =>
        /\ pc = "done"
        /\ state = stateRolledback
        /\ drained = <<>>
        /\ invoked = <<>>
        /\ hooksRun = <<>>
        /\ txLog = IF finish.tx # zeroTx THEN <<(<<"Rollback", finish.tx>>)>> ELSE <<>>

\* The body panicked with a transaction bound, a hook registered and an
\* event with a handler in the buffer.
C5_Witness ==
    /\ BodyFailed
    /\ bodyDone.fn.panicked
    /\ finish.tx # zeroTx
    /\ Len(after) > 0
    /\ Len(events) > 0
    /\ Len(eventHandlers[events[1].ty]) > 0

\* C6: a panic of the body is returned as an error that is ErrRecovered and
\* carries the panic value (wrapped when it is an error, in the message
\* otherwise), with a nil output, and the invocation ends as after an
\* ordinary body error (rolled back); an ordinary body error is returned
\* as it is and is not ErrRecovered.
C6_PanicRecovered ==
    /\ (bodyDone.ended /\ bodyDone.fn.panicked) =>
           /\ pc = "done"
           /\ result.returned
           /\ result.out = NilOut
           /\ Is(result.err, ErrRecovered)
           /\ IF bodyDone.fn.r.isErr
              THEN Is(result.err, bodyDone.fn.r.err)
              ELSE \E i \in 1..Len(result.err.text) : result.err.text[i] = bodyDone.fn.r.val
           /\ state = stateRolledback
    /\ (bodyDone.ended /\ ~bodyDone.fn.panicked /\ bodyDone.fn.err # Nil) =>
           /\ result.err = bodyDone.fn.err
           /\ ~Is(result.err, ErrRecovered)

\* The body panicked with a value that is no error while a transaction was
\* bound, and the transaction was rolled back.
C6_Witness ==
    /\ bodyDone.ended
    /\ bodyDone.fn.panicked
    /\ ~bodyDone.fn.r.isErr
    /\ finish.tx # zeroTx
    /\ txLog = <<(<<"Rollback", finish.tx>>)>>

\* C7: when the body returns without error, each event the body emitted is
\* dispatched exactly once, in the order of emission, after the body has
\* returned and before Transaction.Commit is called (so all of them by the
\* time the hooks run).  (Stated for the OpContexts BeginOperation builds.)
C7_BodyEventsDispatchedInOrder ==
    seeded = <<>> =>
        /\ ~bodyDone.ended => drained = <<>>
        /\ BodySucceeded =>
               /\ IsPrefix(drained, bodyEmits)
               /\ (txLog # <<>> \/ state \in {stateInvokeAfter, stateSuccess})
                      => drained = bodyEmits

\* C8: a hook runs only after every buffered event was dispatched without a
\* failure and after the bound transaction, if any, was committed
\* successfully; the hooks run in registration order, each once, and when
\* all have run the OpContext is Succeeded.
C8_HooksAfterCommit ==
    /\ hooksRun # <<>> =>
           /\ ~handlerFailed.failed
           /\ ~commitFailed
           /\ finish.reached
           /\ txLog = IF finish.tx # zeroTx THEN <<(<<"Commit", finish.tx>>)>> ELSE <<>>
           /\ drained = Ids(seeded)
           /\ state \in {stateInvokeAfter, stateSuccess}
           /\ IsPrefix(hooksRun, after)
           /\ InRegistrationOrder(hooksRun)
           /\ pc = "done" => state = stateSuccess
    /\ state = stateSuccess => (pc = "done" /\ hooksRun = after)

\* After a successful commit, a hook the body registered and then a hook an
\* event handler registered have run, in that order.
C8_Witness ==
    /\ state = stateSuccess
    /\ Len(hooksRun) = 2
    /\ hooksRun[1].by = "body"
    /\ hooksRun[2].by = "handler"
    /\ finish.tx # zeroTx
    /\ txLog = <<(<<"Commit", finish.tx>>)>>

\* C9: in an Invoke in which Tx() is never called, the factory is never
\* invoked and neither Commit nor Rollback is called; and if the body and the
\* dispatch complete without error, the hooks have run in registration order
\* when Invoke returns.
C9_NoTxNoCommit ==
    (kind = "Invoke" /\ txCalls = 0) =>
        /\ factoryCalls = 0
        /\ txLog = <<>>
        /\ (pc = "done" /\ BodySucceeded /\ ~handlerFailed.failed) =>
               /\ state = stateSuccess
               /\ result.err = Nil
               /\ hooksRun = after
               /\ InRegistrationOrder(hooksRun)

\* An Invoke without any Tx() call has returned after running two hooks.
C9_Witness ==
    /\ kind = "Invoke"
    /\ txCalls = 0
    /\ seeded = <<>>
    /\ pc = "done"
    /\ BodySucceeded
    /\ Len(hooksRun) = 2

TxCalled == txCalls > 0 \/ kind = "InvokeTx"

\* A step in which Tx() is called.
TxCallStep == txCalls' # txCalls \/ (kind = "none" /\ kind' = "InvokeTx")

\* C11 (as stated): the factory is invoked exactly once if Tx() is called at
\* least once, whatever the factory returned on its first call, and zero
\* times if Tx() is never called.
C11_FactoryExactlyOnce ==
    factoryCalls = IF TxCalled THEN 1 ELSE 0

\* C11 (amended): the factory is invoked by exactly those calls of Tx() that
\* are made while no transaction is bound, once by each, so never again once
\* a call has bound a transaction, and never when Tx() is not called.
C11_FactoryOncePerUnboundCall ==
    /\ factoryCalls = 0
    /\ [][factoryCalls' = factoryCalls + (IF TxCallStep /\ activeTx = zeroTx THEN 1 ELSE 0)]_vars

\* InvokeTx's own Tx() got the zero value from the factory, the body's first
\* Tx() invoked the factory again and bound a transaction, and the body's
\* second Tx() returned that transaction without a further factory call.
C11_Witness ==
    /\ kind = "InvokeTx"
    /\ pc = "body"
    /\ txCalls = 2
    /\ factoryCalls = 2
    /\ activeTx # zeroTx
    /\ last.op = "Tx"
    /\ last.tx = activeTx

\* C12 (as stated): every call of Invoke and of InvokeTx invokes the body at
\* most once and has attempted exactly one of commit() and rollback() when it
\* returns.
C12_ExactlyOneOfCommitRollback ==
    /\ attempts.body <= 1
    /\ result.returned => attempts.commit + attempts.rollback = 1

\* C12 (amended): the body is invoked at most once, and commit() and
\* rollback() are attempted at most once between them; a call that returns
\* has invoked the body and attempted exactly one of the two, except an
\* InvokeTx whose own Tx() failed, which returns that error without invoking
\* the body and without attempting either.
C12_OneOfCommitRollbackUnlessTxFailed ==
    /\ attempts.body <= 1
    /\ attempts.commit + attempts.rollback <= attempts.body
    /\ result.returned =>
           IF eager.called /\ eager.err # Nil
           THEN /\ attempts = NoAttempts
                /\ result.out = NilOut
                /\ result.err = eager.err
           ELSE /\ attempts.body = 1
                /\ attempts.commit + attempts.rollback = 1

\* An InvokeTx has returned the error of its own Tx() call, the factory's.
C12_Witness ==
    /\ result.returned
    /\ kind = "InvokeTx"
    /\ eager.called
    /\ eager.err = factoryErr
    /\ result.err = factoryErr
    /\ attempts = NoAttempts

\* The invocation failed: the body, a handler or Transaction.Commit did.
InvocationFailed == BodyFailed \/ handlerFailed.failed \/ commitFailed

\* C13: Invoke / InvokeTx return a non-nil output only with a nil error and
\* an OpContext that is Succeeded; when the body, the dispatch or the
\* transaction's Commit fails, they return a nil output and a non-nil error.
C13_OutputOnlyOnSuccess ==
    result.returned =>
        /\ result.out # NilOut => (result.err = Nil /\ state = stateSuccess)
        /\ InvocationFailed => (result.out = NilOut /\ result.err # Nil)

\* The body returned an output without error, Transaction.Commit failed, and
\* Invoke / InvokeTx returned a nil output with an error.
C13_Witness ==
    /\ result.returned
    /\ BodySucceeded
    /\ output = SomeOut
    /\ commitFailed
    /\ result.out = NilOut
    /\ result.err # Nil

\* C14: when every event was dispatched without a failure and the bound
\* transaction's Commit fails, the OpContext ends Failed, no after-hook runs
\* and the transaction receives no Rollback (its Commit is the only call).
C14_CommitFailureNoRollback ==
    commitFailed =>
        /\ ~handlerFailed.failed
        /\ drained = Ids(seeded)
        /\ pc = "done"
        /\ state = stateFailed
        /\ hooksRun = <<>>
        /\ finish.tx # zeroTx
        /\ txLog = <<(<<"Commit", finish.tx>>)>>

\* Commit failed after an event was dispatched to a handler that succeeded,
\* with an after-hook registered.
C14_Witness ==
    /\ commitFailed
    /\ Len(invoked) > 0
    /\ Len(after) > 0

\* C15: the error Invoke / InvokeTx return when Transaction.Commit fails
\* wraps Commit's own error, so that errors.Is finds it, and is thereby not
\* taken for a handler's or the body's error.
C15_CommitErrorIdentityPreserved ==
    (seeded = <<>> /\ commitFailed /\ result.returned) =>
        /\ Is(result.err, commitErr)
        /\ ~Is(result.err, handlerErr)
        /\ ~Is(result.err, bodyErr)

\* The members of a sequence.
Range(q) == {q[i] : i \in 1..Len(q)}

Buffers == Range(seeded) \cup Range(events)

\* The dispatched events whose dispatch has ended without a failure.
DispatchEnded ==
    {id \in Range(drained) :
        /\ ~(pc \in {"handler", "panicked"} /\ cur.ev.id = id)
        /\ ~(handlerFailed.failed /\ handlerFailed.cur.ev.id = id)}

\* C17: a handler is invoked only for a dispatched event of the type it was
\* registered for, the handlers of one event are invoked in the order of
\* their registration (handlers are numbered in that order), and an event
\* whose dispatch ended without failure went to every handler of its type.
C17_HandlersInRegistrationOrder ==
    /\ \A i \in 1..Len(invoked) :
           /\ invoked[i][2] \in Range(drained)
           /\ invoked[i][1] \in Range(eventHandlers[invoked[i][3]])
           /\ \A e \in Buffers : e.id = invoked[i][2] => e.ty = invoked[i][3]
           /\ \A j \in (i + 1)..Len(invoked) :
                  invoked[j][2] = invoked[i][2] => invoked[i][1] < invoked[j][1]
    /\ \A e \in Range(seeded) :
           e.id \in DispatchEnded =>
               \A h \in Range(eventHandlers[e.ty]) : <<h, e.id, e.ty>> \in Range(invoked)

\* Two handlers registered for the type of one event were invoked for it.
C17_Witness ==
    /\ Len(invoked) = 2
    /\ invoked[1][2] = invoked[2][2]
    /\ invoked[1][1] # invoked[2][1]

\* C18: AfterFunc returns nil and appends the function exactly when the
\* OpContext is Active or DispatchingEvents; in every other state it returns
\* ErrInvalidState and the hook list does not hold the function.
C18_AfterFuncStates ==
    last.op = "AfterFunc" =>
        IF last.st \in {stateActive, stateDispatchEvents}
        THEN /\ last.err = Nil
             /\ Len(after) > 0
             /\ after[Len(after)] = [id |-> last.ev, by |-> last.by]
        ELSE /\ last.st \in {stateInvokeAfter, stateSuccess, stateFailed, stateRolledback}
             /\ last.err = ErrInvalidState
             /\ \A i \in 1..Len(after) : after[i].id # last.ev

\* A handler registered a hook during dispatch, behind the body's hook.
C18_Witness ==
    /\ last.op = "AfterFunc"
    /\ last.st = stateDispatchEvents
    /\ last.by = "handler"
    /\ Len(after) = 2
    /\ after[1].by = "body"

CountOps(op, t) == Cardinality({i \in 1..Len(txLog) : txLog[i] = <<op, t>>})

\* C23: every transaction the factory produced has received at most one
\* Commit, at most one Rollback and at most one call of the two together,
\* and the engine calls neither on the zero value.
C23_CommitRollbackAtMostOnce ==
    /\ \A t \in 1..factoryCalls :
           /\ CountOps("Commit", t) <= 1
           /\ CountOps("Rollback", t) <= 1
           /\ CountOps("Commit", t) + CountOps("Rollback", t) <= 1
    /\ \A i \in 1..Len(txLog) : txLog[i][2] \in 1..factoryCalls

\* Invoke / InvokeTx returned after the Commit of the bound transaction
\* failed: that Commit is the only call the transaction received.
C23_Witness ==
    /\ result.returned
    /\ commitFailed
    /\ CountOps("Commit", activeTx) = 1
    /\ CountOps("Rollback", activeTx) = 0

\* C25: when the body fails and the Rollback of the bound transaction fails
\* too, Invoke / InvokeTx return a nil output and the body's error as it is
\* (the recovered error when the body panicked), and nothing of the
\* Rollback's error.
C25_RollbackErrorSwallowed ==
    (BodyFailed /\ rollbackResult # Nil) =>
        /\ rollbackResult = rollbackErr
        /\ result.returned
        /\ result.out = NilOut
        /\ result.err = invokeWithRecover(bodyDone.fn).err
        /\ ~bodyDone.fn.panicked => result.err = bodyDone.fn.err
        /\ ~Is(result.err, rollbackErr)
        /\ \A i \in 1..Len(result.err.text) : result.err.text[i] # rollbackErr.id

\* The body returned an error, the Rollback of the bound transaction failed,
\* and Invoke / InvokeTx returned the body's error.
C25_Witness ==
    /\ BodyFailed
    /\ ~bodyDone.fn.panicked
    /\ rollbackResult = rollbackErr
    /\ txLog = <<(<<"Rollback", finish.tx>>)>>
    /\ result.err = bodyErr

\* C28: when the factory fails in InvokeTx's own Tx() call, InvokeTx returns
\* the factory's error with a nil output, the body is never invoked, no
\* event is dispatched, no handler and no hook runs, and neither Commit nor
\* Rollback is called.
C28_EagerTxFailure ==
    (eager.called /\ eager.err # Nil) =>
        /\ pc = "done"
        /\ result = [returned |-> TRUE, out |-> NilOut, err |-> factoryErr]
        /\ attempts.body = 0
        /\ ~bodyDone.ended
        /\ drained = <<>>
        /\ invoked = <<>>
        /\ hooksRun = <<>>
        /\ txLog = <<>>
        /\ activeTx = zeroTx \/ last.by = "done"

\* The factory failed in InvokeTx's own Tx() call while the buffer held an
\* event with a registered handler.
C28_Witness ==
    /\ eager.called
    /\ eager.err = factoryErr
    /\ Len(events) > 0
    /\ Len(eventHandlers[events[1].ty]) > 0
    /\ last.by = "InvokeTx"

\* Control has just left Invoke / InvokeTx, by a return or by a panic.
LeftInvoke == (pc = "panicked" \/ result.returned) /\ last.by # "done"

\* C29: when control leaves Invoke / InvokeTx, every transaction the factory
\* produced for the invocation has received exactly one of Commit and
\* Rollback, whoever called Tx() and also when a handler panicked.
C29_EveryTxFinished ==
    (seeded = <<>> /\ LeftInvoke) =>
        \A t \in txGiven \ {zeroTx} : CountOps("Commit", t) + CountOps("Rollback", t) = 1

\* C30: in an invocation that ends Succeeded, every event Emit accepted has
\* been dispatched to every handler of its type, and the buffer is empty (an
\* event still in the buffer has been handed to no handler).
C30_NoAcceptedEventLost ==
    (seeded = <<>> /\ LeftInvoke /\ state = stateSuccess) =>
        /\ events = <<>>
        /\ \A i \in 1..Len(invoked) : \A h \in Range(eventHandlers[invoked[i][3]]) :
               <<h, invoked[i][2], invoked[i][3]>> \in Range(invoked)

\* The state changes the lifecycle allows.
AllowedEdges ==
    {<<stateActive, stateDispatchEvents>>, <<stateDispatchEvents, stateFailed>>,
     <<stateDispatchEvents, stateInvokeAfter>>, <<stateInvokeAfter, stateSuccess>>,
     <<stateActive, stateRolledback>>}

Outcomes == {stateSuccess, stateFailed, stateRolledback}

\* C24: the state of an OpContext starts Active and changes only along the
\* five allowed edges, so that it reaches at most one of Succeeded, Failed
\* and RolledBack and never leaves it; and a call of commit() or rollback()
\* in a state other than Active returns ErrInvalidState and leaves the state,
\* the bound transaction and the calls made on transactions as they were.
C24_StateMachine ==
    /\ trail[1] = stateActive
    /\ trail[Len(trail)] = state
    /\ \A i \in 1..(Len(trail) - 1) : <<trail[i], trail[i + 1]>> \in AllowedEdges
    /\ Cardinality({i \in 1..Len(trail) : trail[i] \in Outcomes}) <= 1
    /\ (last.op \in {"commit", "rollback"} /\ last.st # stateActive) =>
           /\ last.err = ErrInvalidState
           /\ state = last.st
           /\ activeTx = last.tx
           /\ Len(txLog) = last.ev

\* commit() was called again while the after-hooks of an invocation with a
\* bound transaction were running, and was rejected.
C24_Witness ==
    /\ last.op = "commit"
    /\ last.by = "hook"
    /\ last.err = ErrInvalidState
    /\ activeTx # zeroTx
    /\ trail = <<stateActive, stateDispatchEvents, stateInvokeAfter>>

\* A callback hnd that is malformed for the event type ty.
Malformed(ty, fn) ==
    \/ ~fn.isFunc
    \/ Len(fn.ins) \notin {1, 2}
    \/ Len(fn.outs) > 1
    \/ Len(fn.outs) = 1 /\ fn.outs[1] # "error"
    \/ Len(fn.ins) = 2 /\ ~AssignableTo("OpContext", fn.ins[1])
    \/ Len(fn.ins) \in {1, 2} /\ ~AssignableTo(ty, fn.ins[Len(fn.ins)])

\* C21: RegisterEventHandler with a malformed callback panics, in the
\* registration itself, and leaves the registry as it was; so the registry
\* never holds a binding of a malformed callback, and none is dispatched to.
C21_MalformedCallbackRejected ==
    /\ (registered.called /\ Malformed(registered.ty, registered.fn)) =>
           /\ registered.panicked
           /\ eventHandlers = registered.before
    /\ \A ty \in EventTypes : \A i \in 1..Len(eventHandlers[ty]) :
           /\ ~Malformed(ty, eventHandlers[ty][i].fn)
           /\ eventHandlers[ty][i].evtParameterType = ty
    /\ dispatched.called => ~Malformed(dispatched.ty, dispatched.h.fn)

\* A callback func(context.Context, B) error was registered for the event type
\* A, and the registration panicked.
C21_Witness ==
    /\ registered.called
    /\ registered.fn.isFunc
    /\ registered.fn.ins = <<"Context", "B">>
    /\ registered.fn.outs = <<"error">>
    /\ registered.ty = "A"
    /\ registered.panicked
    /\ eventHandlers = registered.before

\* The four accepted shapes of a callback for the event type ty.
AcceptedShape(ty, fn) ==
    /\ fn.isFunc
    /\ fn.outs \in {<<>>, <<"error">>}
    /\ \/ fn.ins \in {<<ty>>, <<"any">>}
       \/ Len(fn.ins) = 2 /\ fn.ins[1] \in {"OpContext", "Context"} /\ fn.ins[2] \in {ty, "any"}

\* C22: Dispatch of an event of the registered type to the binding of a
\* callback of an accepted shape calls the callback exactly once, with that
\* event and, if it declares a context parameter, with the OpContext given
\* before it; it returns nil when the callback declares no result or returns
\* nil, and the callback's error itself otherwise.
C22_DispatchCallsOnce ==
    (dispatched.called /\ AcceptedShape(dispatched.ty, dispatched.h.fn) /\ dispatched.evt.ty = dispatched.ty) =>
        /\ ~dispatched.panicked
        /\ Len(dispatched.calls) = 1
        /\ dispatched.calls[1] = IF Len(dispatched.h.fn.ins) = 2
                                 THEN <<dispatched.op, dispatched.evt>>
                                 ELSE <<dispatched.evt>>
        /\ dispatched.err = IF dispatched.h.fn.outs = <<>> THEN Nil ELSE dispatched.ret

\* A callback func(context.Context, any) error was bound for the type B, got
\* an event of that type and returned an error.
C22_Witness ==
    /\ dispatched.called
    /\ dispatched.ty = "B"
    /\ dispatched.h.fn.ins = <<"Context", "any">>
    /\ dispatched.h.fn.outs = <<"error">>
    /\ dispatched.evt.ty = "B"
    /\ dispatched.ret = handlerErr
    /\ dispatched.err = handlerErr
    /\ dispatched.calls = <<(<<dispatched.op, dispatched.evt>>)>>

\* The calls of the role who among the calls Go made.
CallsOf(who) == {n \in 1..Len(went.calls) : went.calls[n].who = who}

\* The error e wraps the sentinel and the source error src.
WrapsBoth(e, sentinel, src) ==
    /\ sentinel.id \in e.wraps
    /\ src.id \in e.wraps
    /\ src.wraps \subseteq e.wraps

\* C27: a call of Invoker.Go calls exactly one of the error mapper and the
\* output mapper.  When the input mapper fails, the operation is not invoked
\* and the error mapper gets an error wrapping ErrInputMappingFailed and the
\* mapper's error; when Invoke / InvokeTx fail, the error mapper gets an error
\* wrapping ErrOperationFailed and their error; otherwise only the output
\* mapper is called, with the operation's output.
C27_GoCallsOneMapper ==
    went.called =>
        LET i == went.invoker
            in == IF i.inputMapper = "nil" THEN Nil ELSE went.inRes.err
            opCalls == CallsOf("Invoke") \cup CallsOf("InvokeTx")
        IN  /\ Cardinality(CallsOf("errorMapper")) + Cardinality(CallsOf("outputMapper")) = 1
            /\ in # Nil =>
                   /\ opCalls = {}
                   /\ \A n \in CallsOf("errorMapper") :
                          /\ went.calls[n].fn = i.errorMapper
                          /\ WrapsBoth(went.calls[n].arg, ErrInputMappingFailed, in)
                   /\ CallsOf("outputMapper") = {}
            /\ (in = Nil /\ went.invRes.err # Nil) =>
                   /\ Cardinality(opCalls) = 1
                   /\ \A n \in CallsOf("errorMapper") :
                          /\ went.calls[n].fn = i.errorMapper
                          /\ WrapsBoth(went.calls[n].arg, ErrOperationFailed, went.invRes.err)
                   /\ CallsOf("outputMapper") = {}
            /\ (in = Nil /\ went.invRes.err = Nil) =>
                   /\ Cardinality(opCalls) = 1
                   /\ CallsOf("errorMapper") = {}
                   /\ \A n \in CallsOf("outputMapper") :
                          /\ went.calls[n].arg = went.invRes.out
                          /\ went.calls[n].fn = IF i.outputMapper = "nil" THEN "WriteJSON"
                                                ELSE i.outputMapper

\* Go was called on an Invoker made by BindTx with an error mapper of the
\* caller, and InvokeTx returned the wrapped error of a failed commit.
C27_Witness ==
    /\ went.called
    /\ went.invoker.txOp
    /\ went.invoker.errorMapper = "errorFn"
    /\ went.invRes = InvokeReturn(SomeOut, commitErr)
    /\ Len(went.calls) = 3
    /\ went.calls[3].who = "errorMapper"
    /\ went.calls[3].arg = ErrorfWW(ErrOperationFailed, went.invRes.err)

\* The invocation of the operation op, run alone on the OpContext at address
\* a of a Hub with the registry hnds, after n steps.
RECURSIVE Alone(_, _, _, _)
Alone(op, a, hnds, n) ==
    IF n = 0
    THEN [l |-> Begun(op, a, hnds), c |-> Buffered(BeginOperation, op.seed)]
    ELSE LET p == Alone(op, a, hnds, n - 1)
         IN  Step(p.l, p.c, hnds)

\* C26: every invocation that has begun holds an OpContext no other
\* invocation holds; under every interleaving the OpContext and the
\* invocation (what its calls returned, the handlers and hooks it ran, the
\* calls on its transaction, its result) are as they are after the same
\* number of steps of the invocation run alone; its events are handed to the
\* handlers with its own OpContext; and the registry of the Hub is the one it
\* found when it began.
C26_InvocationsIsolated ==
    \A i \in Invocations : local[i].begun =>
        /\ local[i].ctx \in 1..Len(heap)
        /\ \A j \in Invocations \ {i} : local[j].begun => local[j].ctx # local[i].ctx
        /\ [l |-> local[i], c |-> heap[local[i].ctx]]
               = Alone(local[i].op, local[i].ctx, local[i].hub, local[i].steps)
        /\ \A n \in 1..Len(local[i].delivered) : local[i].delivered[n][3] = local[i].ctx
        /\ eventHandlers = local[i].hub

\* Two invocations are under way at once on a Hub with a handler: the one
\* that began first has committed its transaction and is running its
\* after-hook, the other is in the handler of its event with its own
\* transaction open.
C26_Witness ==
    \E i, j \in Invocations :
        /\ local[i].begun /\ local[j].begun
        /\ local[i].ctx = 1 /\ local[j].ctx = 2
        /\ local[i].pc = "hook" /\ local[j].pc = "handler"
        /\ local[i].txOps = <<(<<"Commit", 1>>)>>
        /\ local[j].txOps = <<>>
        /\ heap[1].state = stateInvokeAfter /\ heap[2].state = stateDispatchEvents
        /\ heap[1].activeTx = 1 /\ heap[2].activeTx = 2
        /\ local[j].delivered = <<(<<1, 1, 2>>)>>

\* Invoke / InvokeTx is waiting for the body, a handler or a hook.
Running == pc \in {"body", "handler", "hook"}

\* Invoke / InvokeTx has returned with the OpContext in a final state, or,
\* after InvokeTx's own Tx() call failed, still Active.
Ended ==
    /\ pc = "done"
    /\ result.returned
    /\ \/ state \in Outcomes
       \/ state = stateActive /\ eager.called /\ eager.err # Nil

\* C31: when the body, the handlers and the hooks return, an invocation that
\* is running eventually returns with the OpContext Succeeded, Failed or
\* RolledBack, and InvokeTx whose own Tx() call fails returns at once with it
\* Active.  The drain loop terminates: the buffer never grows while it is
\* drained, and the drain ends with an empty buffer or at a handler's failure.
C31_InvokeTerminates ==
    /\ Running ~> Ended
    /\ [](pc = "done" => Ended)
    /\ [][state = stateDispatchEvents => Len(events') <= Len(events)]_vars
    /\ [][(state \in {stateActive, stateDispatchEvents}
            /\ state' \in {stateInvokeAfter, stateSuccess, stateFailed})
          => (events' = <<>> \/ handlerFailed'.failed)]_vars

\* An invocation has returned Succeeded after it drained a buffer of one
\* event to two handlers, committed its transaction and ran a hook.
C31_Witness ==
    /\ Ended
    /\ state = stateSuccess
    /\ Len(seeded) = 1
    /\ drained = <<seeded[1].id>>
    /\ Len(invoked) = 2
    /\ Len(txLog) = 1
    /\ Len(hooksRun) = 1
    /\ events = <<>>

====
